---- MODULE Spec2Model ----
(***************************************************************************)
(* ngx-signal-pipes: effectPipe and computedPipe combinators over the host *)
(* reactive primitives (signal, computed, effect, setTimeout).             *)
(*                                                                         *)
(* One source signal `src` feeds                                           *)
(*   - an effect pipeline built by EffectPipeBuilder and registered by     *)
(*     run (SpecEffect), and                                               *)
(*   - a derived chain built by createComputedPipeSignal, one node per     *)
(*     chain call (SpecDerived).                                           *)
(* Values are tuples: <<>> is the SKIPPED symbol, <<x>> a plain value,     *)
(* <<v, p, k>> the k-th array created by a pair pipe.                      *)
(***************************************************************************)
EXTENDS Integers, Sequences, FiniteSets, TLC

\* ---- bounds --------------------------------------------------------------
NumVals == 3        \* plain source values are <<1>> .. <<NumVals>>
MaxSets == 3        \* number of writes to the source signal
Delay == 2          \* the delay of every debounce stage, in clock ticks

\* ---- values --------------------------------------------------------------
SKIPPED == <<>>
UNDEFINED == <<0>>
PlainVals == {<<x>> : x \in 1..NumVals}
SrcVals == PlainVals \cup {SKIPPED}

\* predicate and mapping function handed to filter and map by the caller
Pred(v) == v[1] % 2 = 1
MapFn(v) == <<10 + ((v[1] + 1) \div 2)>>
DefaultValue == <<9>>

VARIABLES
  src,       \* value of the source signal
  sets,      \* number of writes made to the source signal
  chain,     \* derived nodes, chain[i] reads chain[i-1] (chain[1] reads src)
  effects,   \* registered effects: the one made by run, and one per debounce node
  calls,     \* history: values handed to the terminal callback of run
  reacts,    \* history: non-SKIPPED values read by the reactions of that effect
  fires,     \* history: for every expired timer, was its effect live and its reaction the latest
  lastPass,  \* history: the latest source value, since the chain was begun, for which Pred held
  signals,   \* values of the source signals when there are several (<<>>: one source)
  builder,   \* stages of the EffectPipeBuilder the caller holds
  thrown,    \* history: number of chain calls that threw
  rootRefs   \* the effectRefs array the methods of the object computedPipe returned close over

vars == <<src, sets, chain, effects, calls, reacts, fires, lastPass, signals, builder, thrown,
          rootRefs>>

\* ---- pipes.ts ------------------------------------------------------------
\* A stage (or node) keeps the closure state of its pipe: counter n, pair
\* memory prev, and k, the number of arrays its pair pipe has created (for a
\* map node, the number of times its function was applied).
\* n0 remembers the argument the stage was built with.  cell names the closure
\* when a builder holds it (0: the closure belongs to this stage alone).
Stage(op, n) == [op |-> op, n0 |-> n, n |-> n, prev |-> UNDEFINED, k |-> 0, cell |-> 0]

\* createSkipPipe(n) and createTakePipe(n) throw when n <= 0
Throws_Never(op, n) == FALSE

Throws(op, n) == op \in {"skip", "take"} /\ n <= 0

\* skip with the counter tested before it is decremented (n-- < 0)
createSkipPipe_PostDecrement(st, value) ==
  [st |-> [st EXCEPT !.n = @ - 1], out |-> IF st.n < 0 THEN value ELSE SKIPPED]

createSkipPipe(st, value) ==
  LET m == st.n - 1
  IN [st |-> [st EXCEPT !.n = m], out |-> IF m < 0 THEN value ELSE SKIPPED]

\* take with the counter tested before it is decremented (n-- < 0)
createTakePipe_PostDecrement(st, value) ==
  [st |-> [st EXCEPT !.n = @ - 1], out |-> IF st.n < 0 THEN SKIPPED ELSE value]

createTakePipe(st, value) ==
  LET m == st.n - 1
  IN [st |-> [st EXCEPT !.n = m], out |-> IF m < 0 THEN SKIPPED ELSE value]

\* filter with the predicate negated
createFilterPipe_Negated(st, value) ==
  [st |-> st, out |-> IF Pred(value) THEN SKIPPED ELSE value]

createFilterPipe(st, value) ==
  [st |-> st, out |-> IF Pred(value) THEN value ELSE SKIPPED]

\* pair that never updates its memory of the previous value
createPairPipe_KeepsPrev(st, value) ==
  [st |-> [st EXCEPT !.k = @ + 1], out |-> <<value, st.prev, st.k + 1>>]

createPairPipe(st, value) ==
  [st |-> [st EXCEPT !.prev = value, !.k = @ + 1],
   out |-> <<value, st.prev, st.k + 1>>]

\* ---- effects and timers (host: effect, onCleanup, setTimeout) ------------
\* An effect: src is the node it reads (0 is the source signal), sink the
\* node its callback writes (0 is the user's callback), stages its pipeline.
\* A timer is [stage, val, rem, rid]: started by stage `stage` in reaction
\* `rid`, carrying val, due in rem ticks.  cleanups holds <<stage, rid>> of
\* the timers a registered cleanup function would still clear.  list is the
\* effectRefs array the handle was pushed to (0: none, the caller holds it).
\* reg tells whether the terminal callback registers a cleanup function of its
\* own through ctx.onCleanup each time it is called; such a function is held
\* in cleanups as <<0, rid>>, and ran counts those that have been run.
\* an effect registered with an empty pipeline: the chain calls were dropped
NewEffect_NoStages(from, to, stages) ==
  [src |-> from, sink |-> to, stages |-> <<>>,
   sched |-> TRUE, hasRun |-> FALSE, stale |-> TRUE, destroyed |-> FALSE,
   rid |-> 0, timers |-> {}, cleanups |-> {}, list |-> 0, reg |-> FALSE, ran |-> 0]

NewEffect(from, to, stages) ==
  [src |-> from, sink |-> to, stages |-> stages,
   sched |-> TRUE, hasRun |-> FALSE, stale |-> TRUE, destroyed |-> FALSE,
   rid |-> 0, timers |-> {}, cleanups |-> {}, list |-> 0, reg |-> FALSE, ran |-> 0]

\* cleanup functions that forget to call clearTimeout
runCleanup_NoClear(e) == [e EXCEPT !.cleanups = {}]

\* the cleanup functions of an effect run: each clears its timer if not null
runCleanup(e) ==
  [e EXCEPT !.timers = {t \in @ : <<t.stage, t.rid>> \notin e.cleanups},
            !.cleanups = {},
            !.ran = @ + Cardinality({c \in e.cleanups : c[1] = 0})]

\* destroy that stops the effect but leaves its cleanup functions unrun
destroyEffect_NoCleanup(e) ==
  IF e.destroyed THEN e ELSE [e EXCEPT !.destroyed = TRUE, !.sched = FALSE]

\* destroy that does nothing
destroyEffect_Ignored(e) == e

\* destroy that brings a destroyed effect back to life
destroyEffect_Revives(e) ==
  IF e.destroyed THEN [e EXCEPT !.destroyed = FALSE, !.sched = TRUE]
  ELSE [runCleanup(e) EXCEPT !.destroyed = TRUE, !.sched = FALSE]

\* EffectRef.destroy(): no-op on a destroyed effect
destroyEffect(e) ==
  IF e.destroyed THEN e
  ELSE [runCleanup(e) EXCEPT !.destroyed = TRUE, !.sched = FALSE]

\* a debounce stage that registers no cleanup function
debounce_NoCleanup(e, i, v) ==
  [e EXCEPT !.timers = @ \cup {[stage |-> i, val |-> v, rem |-> Delay, rid |-> e.rid]}]

\* a debounce stage whose timer is due at once
debounce_NoDelay(e, i, v) ==
  [e EXCEPT !.timers = @ \cup {[stage |-> i, val |-> v, rem |-> 0, rid |-> e.rid]},
            !.cleanups = @ \cup {<<i, e.rid>>}]

\* the debounce stage i of effect e is invoked with v: setTimeout, then onCleanup
debounce(e, i, v) ==
  [e EXCEPT !.timers = @ \cup {[stage |-> i, val |-> v, rem |-> Delay, rid |-> e.rid]},
            !.cleanups = @ \cup {<<i, e.rid>>}]

RECURSIVE pipeline(_, _, _)
\* Invoke stage i of effect e with value v; out is what reaches the callback.
pipeline(e, i, v) ==
  IF i > Len(e.stages) THEN [eff |-> e, out |-> <<v>>]
  ELSE
    LET st == e.stages[i] IN
    CASE st.op = "debounce" ->
           [eff |-> debounce(e, i, v), out |-> <<>>]
      [] st.op = "filter" ->
           LET r == createFilterPipe(st, v) IN
           IF r.out # SKIPPED THEN pipeline(e, i + 1, r.out)
           ELSE [eff |-> e, out |-> <<>>]
      [] st.op = "map" -> pipeline(e, i + 1, MapFn(v))
      [] st.op = "pair" ->
           LET r == createPairPipe(st, v) IN
           pipeline([e EXCEPT !.stages[i] = r.st], i + 1, r.out)
      [] st.op = "skip" ->
           LET r == createSkipPipe(st, v)
               e1 == [e EXCEPT !.stages[i] = r.st] IN
           IF r.out # SKIPPED THEN pipeline(e1, i + 1, r.out)
           ELSE [eff |-> e1, out |-> <<>>]
      [] st.op = "take" ->
           LET r == createTakePipe(st, v)
               e1 == [e EXCEPT !.stages[i] = r.st] IN
           IF r.out # SKIPPED THEN pipeline(e1, i + 1, r.out)
           ELSE [eff |-> destroyEffect(e1), out |-> <<>>]

\* a SKIPPED value is not stopped: the stages run on undefined
excludeSkipped_RunsStages(e, v) ==
  IF v = SKIPPED THEN [eff |-> pipeline(e, 1, UNDEFINED).eff, out |-> <<>>]
  ELSE pipeline(e, 1, v)

\* the terminal callback was called with `out` (<<>>: it was not called)
Called(e, out) ==
  IF e.sink = 0 /\ e.reg /\ out # <<>>
    THEN [e EXCEPT !.cleanups = @ \cup {<<0, e.rid>>}] ELSE e

\* a tuple of source values is stopped when one of its elements is SKIPPED
excludeSkipped_AnyElement(e, v) ==
  IF v = SKIPPED \/ \E i \in 1..Len(v) : v[i] = SKIPPED
    THEN [eff |-> e, out |-> <<>>] ELSE pipeline(e, 1, v)

\* first stage of every pipeline
excludeSkipped(e, v) ==
  IF v = SKIPPED THEN [eff |-> e, out |-> <<>>] ELSE pipeline(e, 1, v)

\* ---- computedPipe.ts: derived nodes --------------------------------------
\* A node is a Stage plus: last (lastValue of computedWithLastValue), val and
\* has (the value cached by the host's computed, or held by the debounce
\* signal), stale (the node's producer changed since the node last computed).
\* History kept with the node: hist, the first n0 + 1 non-SKIPPED producer
\* values the node was computed on; pass, for a filter node, the latest
\* producer value it was computed on for which Pred held; real, whether a
\* read by the caller has returned a non-SKIPPED value.
\* refs names the effectRefs array the node's methods close over.
RootRefs == 1       \* the array created by computedPipe(source)

NewNode(op, n) ==
  [op |-> op, n0 |-> n, n |-> n, prev |-> UNDEFINED, k |-> 0,
   last |-> SKIPPED, val |-> SKIPPED, has |-> FALSE, stale |-> TRUE,
   hist |-> <<>>, pass |-> SKIPPED, real |-> FALSE, refs |-> RootRefs]

\* the function each chain method hands to computedWithLastValue
NodeFn(nd, value) ==
  CASE nd.op = "filter" ->
         [st |-> nd, destroy |-> FALSE,
          out |-> IF createFilterPipe(nd, value).out = SKIPPED THEN SKIPPED ELSE value]
    [] nd.op = "skip" ->
         LET r == createSkipPipe(nd, value) IN
         [st |-> r.st, destroy |-> FALSE,
          out |-> IF r.out = SKIPPED THEN SKIPPED ELSE value]
    [] nd.op = "take" ->
         LET r == createTakePipe(nd, value) IN
         IF r.out = SKIPPED
           THEN [st |-> r.st, destroy |-> TRUE, out |-> SKIPPED]
           ELSE [st |-> r.st, destroy |-> FALSE, out |-> value]
    [] nd.op = "map" ->
         [st |-> [nd EXCEPT !.k = @ + 1], destroy |-> FALSE, out |-> MapFn(value)]
    [] nd.op = "pair" ->
         LET r == createPairPipe(nd, value) IN
         [st |-> r.st, destroy |-> FALSE, out |-> r.out]

\* a skipped computation returns SKIPPED instead of the last value
computedWithLastValue_NoLast(nd, value) ==
  IF value = SKIPPED THEN [nd |-> nd, out |-> SKIPPED, destroy |-> FALSE]
  ELSE LET r == NodeFn(nd, value) IN
       IF r.out = SKIPPED
         THEN [nd |-> r.st, out |-> SKIPPED, destroy |-> r.destroy]
         ELSE [nd |-> [r.st EXCEPT !.last = r.out], out |-> r.out, destroy |-> r.destroy]

\* a skipped computation returns the producer's value instead of the last value
computedWithLastValue_PassThrough(nd, value) ==
  IF value = SKIPPED THEN [nd |-> nd, out |-> nd.last, destroy |-> FALSE]
  ELSE LET r == NodeFn(nd, value) IN
       IF r.out = SKIPPED
         THEN [nd |-> r.st, out |-> IF r.st.last = SKIPPED THEN SKIPPED ELSE value,
               destroy |-> r.destroy]
         ELSE [nd |-> [r.st EXCEPT !.last = r.out], out |-> r.out, destroy |-> r.destroy]

\* the function is called on a SKIPPED producer value too
computedWithLastValue_NoSkippedGuard(nd, value) ==
  LET r == NodeFn(nd, value) IN
  IF r.out = SKIPPED
    THEN [nd |-> r.st, out |-> r.st.last, destroy |-> r.destroy]
    ELSE [nd |-> [r.st EXCEPT !.last = r.out], out |-> r.out, destroy |-> r.destroy]

computedWithLastValue(nd, value) ==
  IF value = SKIPPED THEN [nd |-> nd, out |-> nd.last, destroy |-> FALSE]
  ELSE LET r == NodeFn(nd, value) IN
       IF r.out = SKIPPED
         THEN [nd |-> r.st, out |-> r.st.last, destroy |-> r.destroy]
         ELSE [nd |-> [r.st EXCEPT !.last = r.out], out |-> r.out, destroy |-> r.destroy]

\* a default node that hands on whatever its producer reads
defaultFn_PassThrough(nd, value) == [nd |-> nd, destroy |-> FALSE, out |-> value]

\* the computation of a default node; n0 = 1: default(DefaultValue), n0 = 0: default()
defaultFn(nd, value) ==
  [nd |-> nd, destroy |-> FALSE,
   out |-> IF value = SKIPPED
             THEN (IF nd.n0 = 1 THEN DefaultValue ELSE UNDEFINED)
             ELSE value]

Computation(nd, value) ==
  IF nd.op = "default" THEN defaultFn(nd, value) ELSE computedWithLastValue(nd, value)

\* ---- the signal graph (host: signal, computed) ---------------------------
\* A world is the part of the state the reactive graph operates on.
World == [src |-> src, chain |-> chain, effects |-> effects]

ValOf(w, i) == IF i = 0 THEN w.src ELSE w.chain[i].val

RECURSIVE RootOf(_, _)
\* the nearest settable signal at or above node i: the source or a debounce node
RootOf(c, i) ==
  IF i = 0 THEN 0
  ELSE IF c[i].op = "debounce" THEN i
  ELSE RootOf(c, i - 1)

\* signal r was set: every live effect that depends on it is scheduled
Notify(w, r) ==
  [w EXCEPT !.effects =
     [j \in 1..Len(w.effects) |->
        IF ~w.effects[j].destroyed /\ RootOf(w.chain, w.effects[j].src) = r
          THEN [w.effects[j] EXCEPT !.sched = TRUE]
          ELSE w.effects[j]]]

\* the value of node i (or of the source) changed: its consumers see a new version
Bump(w, i) ==
  [w EXCEPT
     !.chain = [j \in 1..Len(w.chain) |->
                  IF j = i + 1 /\ w.chain[j].op # "debounce"
                    THEN [w.chain[j] EXCEPT !.stale = TRUE]
                    ELSE w.chain[j]],
     !.effects = [j \in 1..Len(w.effects) |->
                    IF w.effects[j].src = i
                      THEN [w.effects[j] EXCEPT !.stale = TRUE]
                      ELSE w.effects[j]]]

\* the object computedPipe returned keeps the methods of the first call
RefsOf_FirstCall(c, i) == IF i = 0 THEN RootRefs ELSE c[i].refs

\* the effectRefs array of node i (0 is the object computedPipe returned)
RefsOf(c, i) == IF i = 0 THEN rootRefs ELSE c[i].refs

\* destroy() of a chain node: every handle of its effectRefs array l
destroy(w, l) ==
  [w EXCEPT !.effects =
     [j \in 1..Len(w.effects) |->
        IF w.effects[j].list = l THEN destroyEffect(w.effects[j])
        ELSE w.effects[j]]]

\* this.destroy() in the computation of take node i: this is the node take was called on
destroyThis(w, i) == destroy(w, RefsOf(w.chain, i - 1))

\* the host stores the result r of recomputing computed node i
StoreComputed(w, i, r, up) ==
  [w EXCEPT !.chain[i] =
     [r.nd EXCEPT !.val = r.out, !.has = TRUE, !.stale = FALSE,
                  !.hist = IF up # SKIPPED /\ Len(@) <= r.nd.n0 THEN Append(@, up) ELSE @,
                  !.pass = IF r.nd.op = "filter" /\ up # SKIPPED /\ Pred(up) THEN up ELSE @]]

RecomputeWith(w, i, r) ==
  IF ~w.chain[i].has \/ r.out # w.chain[i].val
    THEN Bump(IF r.destroy THEN destroyThis(StoreComputed(w, i, r, ValOf(w, i - 1)), i)
              ELSE StoreComputed(w, i, r, ValOf(w, i - 1)), i)
    ELSE IF r.destroy THEN destroyThis(StoreComputed(w, i, r, ValOf(w, i - 1)), i)
         ELSE StoreComputed(w, i, r, ValOf(w, i - 1))

\* the host recomputes computed node i from its producer
Recompute(w, i) == RecomputeWith(w, i, Computation(w.chain[i], ValOf(w, i - 1)))

RefreshNode(w, i) ==
  IF w.chain[i].op # "debounce" /\ (~w.chain[i].has \/ w.chain[i].stale)
    THEN Recompute(w, i) ELSE w

RECURSIVE Refresh(_, _, _)
\* reading node `target`: nodes i..target are brought up to date, producer first
Refresh(w, i, target) ==
  IF i > target THEN w ELSE Refresh(RefreshNode(w, i), i + 1, target)

\* output.set(v) of a debounce node
SetNode(w, j, v) ==
  IF w.chain[j].val = v THEN w
  ELSE Notify(Bump([w EXCEPT !.chain[j].val = v], j), j)

\* the terminal callback of an effect receives `out`
Deliver(w, snk, out) ==
  IF out = <<>> \/ snk = 0 THEN w ELSE SetNode(w, snk, out[1])

\* the closures of the stages S have run: every stage made from the same
\* builder call holds the same closure, and so the same counter and memory
SharedCell(st, S) == st.cell # 0 /\ \E m \in 1..Len(S) : S[m].cell = st.cell

SyncStages(stages, S) ==
  [a \in 1..Len(stages) |->
     IF SharedCell(stages[a], S)
       THEN S[CHOOSE m \in 1..Len(S) : S[m].cell = stages[a].cell]
       ELSE stages[a]]

SyncCells(w, S) ==
  [w EXCEPT !.effects = [j \in 1..Len(@) |-> [@[j] EXCEPT !.stages = SyncStages(@, S)]]]

Commit(w) ==
  /\ src' = w.src
  /\ chain' = w.chain
  /\ effects' = w.effects

\* ---- actions -------------------------------------------------------------
\* a source whose derived nodes are recomputed as soon as it is set
SetSource_Eager(v) ==
  /\ sets < MaxSets
  /\ v # src
  /\ sets' = sets + 1
  /\ Commit(Refresh(Notify(Bump([World EXCEPT !.src = v], 0), 0), 1, Len(chain)))
  /\ lastPass' = IF chain # <<>> /\ v # SKIPPED /\ Pred(v) THEN v ELSE lastPass
  /\ UNCHANGED <<calls, reacts, fires, signals, builder, thrown, rootRefs>>

\* source.set(v); setting the value the signal already holds does nothing
SetSource(v) ==
  /\ sets < MaxSets
  /\ v # src
  /\ sets' = sets + 1
  /\ Commit(Notify(Bump([World EXCEPT !.src = v], 0), 0))
  /\ lastPass' = IF chain # <<>> /\ v # SKIPPED /\ Pred(v) THEN v ELSE lastPass
  /\ UNCHANGED <<calls, reacts, fires, signals, builder, thrown, rootRefs>>

\* consumerPollProducersForChange: a producer already seen to have changed is
\* not brought up to date; otherwise the chain the effect reads is refreshed
Poll(w, i) ==
  IF w.effects[i].hasRun /\ ~w.effects[i].stale
    THEN Refresh(w, 1, w.effects[i].src) ELSE w

\* the effect function starts: cleanup of the previous run, then source()
Rerun(w, i) ==
  Refresh([w EXCEPT !.effects[i] =
             [runCleanup(@) EXCEPT !.hasRun = TRUE, !.rid = @ + 1]],
          1, w.effects[i].src)

\* the pipeline was invoked with `value` and returned r
Reacted(w, i, value, r) ==
  /\ Commit(SyncCells(Deliver([w EXCEPT !.effects[i] = Called(r.eff, r.out)],
                              w.effects[i].sink, r.out),
                      r.eff.stages))
  /\ builder' = SyncStages(builder, r.eff.stages)
  /\ calls' = IF w.effects[i].sink = 0 THEN calls \o r.out ELSE calls
  /\ reacts' = IF w.effects[i].sink = 0 /\ value # SKIPPED
                 THEN Append(reacts, value) ELSE reacts

React(w, i) ==
  Reacted(w, i, ValOf(w, w.effects[i].src),
          excludeSkipped([w.effects[i] EXCEPT !.stale = FALSE],
                         ValOf(w, w.effects[i].src)))

Polled(w, i) ==
  IF effects[i].hasRun /\ ~w.effects[i].stale
    THEN Commit(w) /\ UNCHANGED <<calls, reacts, builder>>
    ELSE React(Rerun(w, i), i)

\* the host runs scheduled effect i: it reruns the effect function only if a
\* producer changed, after running the cleanup functions of the previous run
RunEffect(i) ==
  /\ effects[i].sched
  /\ ~effects[i].destroyed
  /\ Polled(Poll([World EXCEPT !.effects[i].sched = FALSE], i), i)
  /\ UNCHANGED <<sets, fires, lastPass, signals, thrown, rootRefs>>

\* the setTimeout callback of timer t called next(value, ctx), which returned
\* r; then the callback sets its timer variable to null
Fired(i, t, r) ==
  /\ Commit(SyncCells(Deliver([World EXCEPT !.effects[i] =
                                 Called([r.eff EXCEPT !.cleanups = @ \ {<<t.stage, t.rid>>}],
                                        r.out)],
                              effects[i].sink, r.out),
                      r.eff.stages))
  /\ builder' = SyncStages(builder, r.eff.stages)
  /\ calls' = IF effects[i].sink = 0 THEN calls \o r.out ELSE calls

\* timer t of effect i expires
TimerFire(i, t) ==
  /\ t \in effects[i].timers
  /\ t.rem = 0
  /\ Fired(i, t, pipeline([effects[i] EXCEPT !.timers = @ \ {t}], t.stage + 1, t.val))
  /\ fires' = fires \cup {[live |-> ~effects[i].destroyed,
                           latest |-> t.rid = effects[i].rid]}
  /\ UNCHANGED <<sets, reacts, lastPass, signals, thrown, rootRefs>>

\* one unit of time passes; a due timer expires before time moves on
Tick ==
  /\ \E i \in 1..Len(effects) : effects[i].timers # {}
  /\ \A i \in 1..Len(effects) : \A t \in effects[i].timers : t.rem > 0
  /\ effects' = [i \in 1..Len(effects) |->
                   [effects[i] EXCEPT !.timers = {[t EXCEPT !.rem = @ - 1] : t \in @}]]
  /\ UNCHANGED <<src, sets, chain, calls, reacts, fires, lastPass, signals, builder, thrown, rootRefs>>

\* the caller destroys the handle returned by run
DestroyEffect(i) ==
  /\ effects[i].sink = 0
  /\ ~effects[i].destroyed
  /\ effects' = [effects EXCEPT ![i] = destroyEffect(@)]
  /\ UNCHANGED <<src, sets, chain, calls, reacts, fires, lastPass, signals, builder, thrown, rootRefs>>

\* ---- effectPipe(source) ... .run(callback) -------------------------------
MaxN == 2           \* skip(n) and take(n) are built with n in 1..MaxN

Pipelines ==
  {<<Stage("take", n)>> : n \in 1..MaxN}
  \cup {<<Stage("skip", n)>> : n \in 1..MaxN}
  \cup {<<Stage("skip", n), Stage("take", n)>> : n \in 1..MaxN}
  \cup {<<Stage("take", n), Stage("skip", n)>> : n \in 1..MaxN}
  \cup {<<Stage("debounce", 0)>>,
        <<Stage("debounce", 0), Stage("debounce", 0)>>,
        <<Stage("filter", 0), Stage("debounce", 0)>>,
        <<Stage("take", 1), Stage("debounce", 0)>>,
        <<Stage("debounce", 0), Stage("take", 1)>>,
        <<Stage("map", 0), Stage("debounce", 0)>>,
        <<Stage("filter", 0)>>,
        <<Stage("pair", 0)>>}

\* EffectPipeBuilder.run: one effect over the source, scheduled for its first run
InitEffect ==
  /\ src \in SrcVals
  /\ sets = 0
  /\ chain = <<>>
  /\ \E p \in Pipelines : effects = <<NewEffect(0, 0, p)>>
  /\ calls = <<>>
  /\ reacts = <<>>
  /\ fires = {}
  /\ lastPass = SKIPPED
  /\ signals = <<>>
  /\ builder = <<>>
  /\ thrown = 0
  /\ rootRefs = RootRefs

NextEffect ==
  \/ \E v \in SrcVals : SetSource(v)
  \/ \E i \in 1..Len(effects) : RunEffect(i)
  \/ \E i \in 1..Len(effects) : \E t \in effects[i].timers : TimerFire(i, t)
  \/ Tick
  \/ \E i \in 1..Len(effects) : DestroyEffect(i)

SpecEffect == InitEffect /\ [][NextEffect]_vars

\* ---- computedPipe(source) and its chain methods --------------------------
Chains ==
  {<<Stage("skip", n)>> : n \in 1..MaxN}
  \cup {<<Stage("take", n)>> : n \in 1..MaxN}
  \cup {<<Stage("filter", 0)>>,
        <<Stage("map", 0)>>,
        <<Stage("pair", 0)>>,
        <<Stage("default", 0)>>,
        <<Stage("default", 1)>>,
        <<Stage("skip", 1), Stage("default", 1)>>,
        <<Stage("debounce", 0)>>,
        <<Stage("skip", 1), Stage("debounce", 0)>>,
        <<Stage("filter", 0), Stage("debounce", 0)>>,
        <<Stage("take", 1), Stage("debounce", 0)>>,
        <<Stage("debounce", 0), Stage("take", 1)>>,
        <<Stage("skip", 1), Stage("skip", 1)>>,
        <<Stage("filter", 0), Stage("pair", 0)>>}

\* the chain calls made so far
Built == [i \in 1..Len(chain) |-> Stage(chain[i].op, chain[i].n0)]

\* debounce seeded with the value of the source signal instead of the upstream node
AddDebounce_SeedFromSource(w) ==
  /\ src' = w.src
  /\ chain' = Append(w.chain, [NewNode("debounce", 0) EXCEPT
                                 !.val = w.src, !.has = TRUE, !.stale = FALSE,
                                 !.refs = RefsOf(w.chain, Len(w.chain))])
  /\ effects' = Append(w.effects,
                       [NewEffect(Len(w.chain), Len(w.chain) + 1, <<Stage("debounce", 0)>>)
                          EXCEPT !.list = RefsOf(w.chain, Len(w.chain))])

\* debounce hands a new, empty effectRefs array to the node it returns
AddDebounce_FreshRefs(w) ==
  /\ src' = w.src
  /\ chain' = Append(w.chain, [NewNode("debounce", 0) EXCEPT
                                 !.val = ValOf(w, Len(w.chain)),
                                 !.has = TRUE, !.stale = FALSE,
                                 !.refs = RootRefs + Len(w.chain) + 1])
  /\ effects' = Append(w.effects,
                       [NewEffect(Len(w.chain), Len(w.chain) + 1, <<Stage("debounce", 0)>>)
                          EXCEPT !.list = RefsOf(w.chain, Len(w.chain))])

\* debounce on a chain whose effects were stopped registers a stopped effect
AddDebounce_StaysDestroyed(w) ==
  /\ src' = w.src
  /\ chain' = Append(w.chain, [NewNode("debounce", 0) EXCEPT
                                 !.val = ValOf(w, Len(w.chain)),
                                 !.has = TRUE, !.stale = FALSE,
                                 !.refs = RefsOf(w.chain, Len(w.chain))])
  /\ effects' = Append(w.effects,
                       [NewEffect(Len(w.chain), Len(w.chain) + 1, <<Stage("debounce", 0)>>)
                          EXCEPT !.list = RefsOf(w.chain, Len(w.chain)),
                                 !.destroyed = \E j \in 1..Len(w.effects) : w.effects[j].destroyed,
                                 !.sched = \A j \in 1..Len(w.effects) : ~w.effects[j].destroyed])

\* debounce(delay): signal(source()), then effectPipe(source).debounce(delay).run
AddDebounce(w) ==
  /\ src' = w.src
  /\ chain' = Append(w.chain, [NewNode("debounce", 0) EXCEPT
                                 !.val = ValOf(w, Len(w.chain)),
                                 !.has = TRUE, !.stale = FALSE,
                                 !.refs = RefsOf(w.chain, Len(w.chain))])
  /\ effects' = Append(w.effects,
                       [NewEffect(Len(w.chain), Len(w.chain) + 1, <<Stage("debounce", 0)>>)
                          EXCEPT !.list = RefsOf(w.chain, Len(w.chain))])

\* a chain method is called on the last node of the chain; cs are the chains built
AddStageIn(cs, d) ==
  /\ \E c \in cs :
       /\ Len(c) > Len(chain)
       /\ SubSeq(c, 1, Len(chain) + 1) = Append(Built, d)
  /\ IF d.op = "debounce"
       THEN AddDebounce(Refresh(World, 1, Len(chain)))
       ELSE /\ chain' = Append(chain, [NewNode(d.op, d.n) EXCEPT
                                         !.refs = RefsOf(chain, Len(chain))])
            /\ UNCHANGED <<src, effects>>
  /\ lastPass' = IF chain = <<>> /\ signals = <<>> /\ src # SKIPPED /\ Pred(src)
                 THEN src ELSE lastPass
  /\ UNCHANGED <<sets, calls, reacts, fires, signals, builder, thrown, rootRefs>>

AddStage(d) == AddStageIn(Chains, d)

\* node i was read and the graph is now w
HasRead(w, i) ==
  Commit([w EXCEPT !.chain[i].real = @ \/ ValOf(w, i) # SKIPPED])

\* the caller reads node i
Read(i) ==
  /\ HasRead(Refresh(World, 1, i), i)
  /\ UNCHANGED <<sets, calls, reacts, fires, lastPass, signals, builder, thrown, rootRefs>>

\* the caller calls destroy() on node i of the chain (0: on what computedPipe returned)
Destroy(i) ==
  /\ \E j \in 1..Len(effects) : effects[j].list # 0 /\ ~effects[j].destroyed
  /\ Commit(destroy(World, RefsOf(chain, i)))
  /\ UNCHANGED <<sets, calls, reacts, fires, lastPass, signals, builder, thrown, rootRefs>>

InitDerived ==
  /\ src \in SrcVals
  /\ sets = 0
  /\ chain = <<>>
  /\ effects = <<>>
  /\ calls = <<>>
  /\ reacts = <<>>
  /\ fires = {}
  /\ lastPass = SKIPPED
  /\ signals = <<>>
  /\ builder = <<>>
  /\ thrown = 0
  /\ rootRefs = RootRefs

NextDerived ==
  \/ \E v \in SrcVals : SetSource(v)
  \/ \E c \in Chains : \E j \in 1..Len(c) : AddStage(c[j])
  \/ \E i \in 1..Len(chain) : Read(i)
  \/ \E i \in 1..Len(effects) : RunEffect(i)
  \/ \E i \in 1..Len(effects) : \E t \in effects[i].timers : TimerFire(i, t)
  \/ Tick
  \/ \E i \in 0..Len(chain) : Destroy(i)

SpecDerived == InitDerived /\ [][NextDerived]_vars

\* ---- properties of effect pipelines --------------------------------------
Min(a, b) == IF a < b THEN a ELSE b

TheEffect == effects[1]
IsPipe(ops) ==
  /\ Len(effects) = 1
  /\ Len(TheEffect.stages) = Len(ops)
  /\ \A i \in 1..Len(ops) : TheEffect.stages[i].op = ops[i]

\* C1: in effectPipe(s).take(n).run(cb), cb is invoked for each of the first
\* n reactions that carry a non-SKIPPED source value and never afterwards:
\* the calls are the first min(n, number of such reactions) reaction values.
C1_TakeCallsFirstN ==
  IsPipe(<<"take">>) =>
    /\ Len(calls) = Min(TheEffect.stages[1].n0, Len(reacts))
    /\ calls = SubSeq(reacts, 1, Len(calls))

\* a take(n) effect that has seen more than n reactions and delivered n of them
C1_Witness ==
  /\ IsPipe(<<"take">>)
  /\ TheEffect.stages[1].n0 = 2
  /\ Len(reacts) > 2
  /\ Len(calls) = 2

\* C2: in effectPipe(s).skip(n).run(cb), cb is not invoked for the first n
\* reactions that carry a non-SKIPPED source value and is invoked exactly
\* once, with the reaction's value, for every later such reaction.
C2_SkipCallsAfterN ==
  IsPipe(<<"skip">>) =>
    calls = SubSeq(reacts, TheEffect.stages[1].n0 + 1, Len(reacts))

\* a skip(1) effect that dropped its first reaction and delivered two later ones
C2_Witness ==
  /\ IsPipe(<<"skip">>)
  /\ TheEffect.stages[1].n0 = 1
  /\ Len(reacts) = 3
  /\ Len(calls) = 2

\* C3: no two timers started by the same debounce stage of an effect
\* pipeline are pending at the same time.
C3_OneTimerPerStage ==
  \A i \in 1..Len(effects) : \A t1, t2 \in effects[i].timers :
    t1.stage = t2.stage => t1 = t2

\* a second reaction replaced the timer of the first before it expired
C3_Witness ==
  /\ IsPipe(<<"debounce">>)
  /\ Len(reacts) >= 2
  /\ fires = {}
  /\ \E t \in TheEffect.timers : t.rid = TheEffect.rid /\ t.val = reacts[Len(reacts)]

ReadValueIn(w, i) == ValOf(Refresh(w, 1, i), i)
ReadValue(i) == ReadValueIn(World, i)

DebounceNodes == {i \in 1..Len(chain) : chain[i].op = "debounce"}

\* the effect registered by debounce node i
EffOf(i) == CHOOSE j \in 1..Len(effects) : effects[j].sink = i

\* the effect of debounce node i has observed the latest change, its delay has
\* elapsed, and it was not destroyed
Settled(i) ==
  /\ effects[EffOf(i)].hasRun
  /\ ~effects[EffOf(i)].sched
  /\ ~effects[EffOf(i)].destroyed
  /\ effects[EffOf(i)].timers = {}

\* C5 as stated: once d has elapsed with no further source change and no
\* destroy, a debounce node reads the latest upstream value.
C5_SettledReadsUpstream ==
  \A i \in DebounceNodes : Settled(i) => chain[i].val = ReadValue(i - 1)

\* a rerun of the effect of node i leaves only the timer it starts, with the
\* full delay; a write to node i is made by a timer of the latest reaction
RestartsTimer(i) ==
  /\ effects'[EffOf(i)].rid # effects[EffOf(i)].rid =>
       \A t \in effects'[EffOf(i)].timers :
         t.rid = effects'[EffOf(i)].rid /\ t.rem = Delay
  /\ chain'[i].val # chain[i].val =>
       \E t \in effects[EffOf(i)].timers \ effects'[EffOf(i)].timers :
         t.rid = effects[EffOf(i)].rid /\ t.val = chain'[i].val

\* C5 (amended): once d has elapsed with no further source change and no
\* destroy, a debounce node reads the latest upstream value unless that
\* value is SKIPPED (then it keeps its value); when a second change is
\* observed before d has elapsed, the timer restarts with the full delay and
\* the intermediate value is never written to the node.
C5_SettledReadsUpstreamUnlessSkipped ==
  /\ [](\A i \in DebounceNodes :
          Settled(i) /\ ReadValue(i - 1) # SKIPPED => chain[i].val = ReadValue(i - 1))
  /\ [][\A i \in DebounceNodes : RestartsTimer(i)]_vars

\* a debounce node that was written the value of a second reaction after the
\* timer of an earlier reaction had been replaced
C5_Witness ==
  \E i \in DebounceNodes :
    /\ Settled(i)
    /\ effects[EffOf(i)].rid >= 3
    /\ Cardinality(fires) = 1
    /\ chain[i].val = src
    /\ src # SKIPPED

\* some timer of the latest reaction of the effect of node i is not yet due
WithinDelay(i) ==
  \E t \in effects[EffOf(i)].timers : t.rid = effects[EffOf(i)].rid /\ t.rem > 0

\* C6: a debounce node never changes value at the moment the source changes:
\* its value changes only when a timer of its effect expires, so it is
\* unchanged by every step taken less than d after the latest reaction.
C6_ChangesOnlyOnExpiry ==
  [][\A i \in DebounceNodes :
       chain'[i].val # chain[i].val =>
         /\ src' = src
         /\ ~WithinDelay(i)
         /\ \E t \in effects[EffOf(i)].timers \ effects'[EffOf(i)].timers : t.rem = 0]_vars

\* the source has changed, the reaction has run, less than d has elapsed and
\* the node still holds its old value
C6_Witness ==
  \E i \in DebounceNodes :
    /\ WithinDelay(i)
    /\ \E t \in effects[EffOf(i)].timers : t.rem < Delay /\ t.val # chain[i].val
    /\ chain[i].val # SKIPPED
    /\ sets >= 1

\* C7: right after debounce(d) is built on a node, reading the new node
\* returns what the upstream node reads: the current upstream value, SKIPPED
\* only when upstream reads SKIPPED.
C7_SeededWithUpstream ==
  [][Len(chain') = Len(chain) + 1 /\ chain'[Len(chain')].op = "debounce" =>
       chain'[Len(chain')].val = ReadValueIn(World', Len(chain))]_vars

\* skip(1).debounce(d) just built: both nodes read SKIPPED although the source does not
C7_Witness ==
  /\ Len(chain) = 2
  /\ chain[1].op = "skip"
  /\ chain[2].op = "debounce"
  /\ ~effects[EffOf(2)].hasRun
  /\ chain[2].val = SKIPPED
  /\ src # SKIPPED
  /\ sets >= 1

\* C8: once a read of a filter, skip, take, map, pair or debounce node has
\* returned a non-SKIPPED value, no later read of it returns SKIPPED,
\* whatever the source does (the source being set to SKIPPED included).
C8_NeverBackToSkipped ==
  \A i \in 1..Len(chain) :
    chain[i].op \in {"filter", "skip", "take", "map", "pair", "debounce"} /\ chain[i].real
      => ReadValue(i) # SKIPPED

\* a node that has been read with a real value and was then computed on a
\* SKIPPED source
C8_Witness ==
  /\ Len(chain) = 1
  /\ chain[1].op = "map"
  /\ chain[1].real
  /\ src = SKIPPED
  /\ ~chain[1].stale

\* C9 as stated: whether or not a read followed each write, a read of a
\* filter node returns the latest source value for which the predicate held
\* (SKIPPED if it held for none).
C9_ReadsLatestPassingWrite ==
  Len(chain) >= 1 /\ chain[1].op = "filter" => ReadValue(1) = lastPass

\* C9 (amended): a read of a filter node returns the latest value for which
\* the predicate held among the source values the node was computed on, at
\* this read or an earlier one (SKIPPED if it held for none); a value
\* overwritten before any read is not observed.
C9_ReadsLatestPassingComputed ==
  Len(chain) >= 1 /\ chain[1].op = "filter" =>
    ReadValue(1) = IF src # SKIPPED /\ Pred(src) THEN src ELSE chain[1].pass

\* a passing value was written and overwritten between two reads
C9_Witness ==
  /\ Len(chain) = 1
  /\ chain[1].op = "filter"
  /\ chain[1].pass # SKIPPED
  /\ lastPass # chain[1].pass
  /\ ~chain[1].stale
  /\ src # SKIPPED
  /\ ~Pred(src)

TakeNodes == {i \in 1..Len(chain) : chain[i].op = "take"}

\* C10: a take(n) node reads the producer's value after each of its first n
\* computations on a non-SKIPPED value and the n-th of those values after
\* every later computation; once the n values are used up its value never
\* changes again.
C10_TakeKeepsNth ==
  /\ [](\A i \in TakeNodes :
          chain[i].has =>
            chain[i].val = IF chain[i].hist = <<>> THEN SKIPPED
                           ELSE chain[i].hist[Min(Len(chain[i].hist), chain[i].n0)])
  /\ [][\A i \in TakeNodes :
          chain[i].has /\ Len(chain[i].hist) >= chain[i].n0 => chain'[i].val = chain[i].val]_vars

\* a take(2) node computed a third time: it reads the second value, not the source's
C10_Witness ==
  \E i \in TakeNodes :
    /\ chain[i].n0 = 2
    /\ Len(chain[i].hist) = 3
    /\ chain[i].val = chain[i].hist[2]
    /\ chain[i].val # chain[i].hist[3]
    /\ chain[i].val # chain[i].hist[1]

SkipNodes == {i \in 1..Len(chain) : chain[i].op = "skip"}

\* node i was computed on a non-SKIPPED producer value in this step: its pipe
\* was called, which is the only thing that decrements its counter
Counted(i) == chain'[i].n = chain[i].n - 1

UpToDate == Refresh(World, 1, Len(chain)) = World

\* the caller writes a new plain value once the chain has been read
WriteAfterRead(v) ==
  /\ UpToDate
  /\ SetSource(v)

InitSkipSkip ==
  /\ src \in PlainVals
  /\ sets = 0
  /\ \E a, b \in 1..MaxN : chain = <<NewNode("skip", a), NewNode("skip", b)>>
  /\ effects = <<>>
  /\ calls = <<>>
  /\ reacts = <<>>
  /\ fires = {}
  /\ lastPass = SKIPPED
  /\ signals = <<>>
  /\ builder = <<>>
  /\ thrown = 0
  /\ rootRefs = RootRefs

NextSkipSkip ==
  \/ \E v \in PlainVals : WriteAfterRead(v)
  \/ Read(Len(chain))

SpecSkipSkip == InitSkipSkip /\ [][NextSkipSkip]_vars

\* C12: for skip(a).skip(b) read after each of a sequence of distinct source
\* values, the first a + b reads return SKIPPED and every later read returns
\* the current source value (the read being made is read number sets + 1).
C12_SkipSkipAddsUp ==
  ReadValue(2) = IF sets + 1 <= chain[1].n0 + chain[2].n0 THEN SKIPPED ELSE src

\* skip(2).skip(1) after its fourth read: the first value that is not SKIPPED
C12_Witness ==
  /\ chain[1].n0 = 2
  /\ chain[2].n0 = 1
  /\ sets = 3
  /\ UpToDate
  /\ chain[2].val = src

\* the effects registered in the chain's shared effectRefs list
EffectRefs == {j \in 1..Len(effects) : effects[j].list # 0}

\* take node i was computed in this step on a non-SKIPPED producer value
\* after its n values were used up
Exhausted(i) == Counted(i) /\ chain'[i].n < 0

\* C13 as stated: when a take(n) node is recomputed on a non-SKIPPED producer
\* value after its n values are used up, every effect in the shared handle
\* list is stopped, and from then on no debounce node of the chain changes
\* value.
C13_TakeStopsDebounce ==
  /\ [][\A i \in TakeNodes :
          Exhausted(i) => \A j \in EffectRefs : effects'[j].destroyed]_vars
  /\ [][(\E i \in TakeNodes : chain[i].n < 0) =>
          \A j \in DebounceNodes : chain'[j].val = chain[j].val]_vars

\* ---- chains with more than one debounce stage ----------------------------
Lineages ==
  {<<Stage("debounce", 0), Stage("debounce", 0)>>}

NextLineage ==
  \/ \E v \in SrcVals : SetSource(v)
  \/ \E c \in Lineages : \E j \in 1..Len(c) : AddStageIn(Lineages, c[j])
  \/ \E i \in 1..Len(chain) : Read(i)
  \/ \E i \in 1..Len(effects) : RunEffect(i)
  \/ \E i \in 1..Len(effects) : \E t \in effects[i].timers : TimerFire(i, t)
  \/ Tick
  \/ \E i \in 0..Len(chain) : Destroy(i)

SpecLineage == InitDerived /\ [][NextLineage]_vars

\* C14: destroy() called on any node of a chain (the object computedPipe
\* returned included) stops every effect created by every debounce stage of
\* the chain, upstream or downstream of that node: whichever node it is
\* called on, every registered effect is stopped.
C14_DestroyFromAnyNode ==
  \A i \in 0..Len(chain) : \A j \in EffectRefs :
    destroy(World, RefsOf(chain, i)).effects[j].destroyed

\* two debounce stages whose effects have both run and were both stopped
\* before the downstream node caught up with the upstream one
C14_Witness ==
  /\ Len(chain) = 2
  /\ Cardinality(EffectRefs) = 2
  /\ \A j \in EffectRefs : effects[j].destroyed /\ effects[j].hasRun
  /\ chain[1].val # chain[2].val
  /\ fires # {}

\* destroy() has been called on the chain since its last effect was
\* registered: effects of the handle list are stopped by nothing else
Destroyed == EffectRefs # {} /\ \A j \in EffectRefs : effects[j].destroyed

\* C15 as stated: after destroy() is called on a chain, a debounce node keeps
\* the value it had at that moment: no later source change and no timer
\* writes to it.
C15_DestroyedKeepsValue ==
  [][Destroyed => \A i \in DebounceNodes : chain'[i].val = chain[i].val]_vars

\* ---- more properties of effect pipelines ---------------------------------
\* C16: in effectPipe(s).filter(p).run(cb), cb is invoked for a reaction if
\* and only if p holds for the reaction's non-SKIPPED value, with that value;
\* when p fails no stage after the filter runs: a debounce stage declared
\* after the filter starts no timer for that reaction.
C16_FilterCallsIffPred ==
  /\ IsPipe(<<"filter">>) => calls = SelectSeq(reacts, Pred)
  /\ IsPipe(<<"filter", "debounce">>) =>
       /\ \A t \in TheEffect.timers : Pred(t.val)
       /\ reacts # <<>> /\ ~Pred(reacts[Len(reacts)]) => TheEffect.timers = {}

\* three reactions of a filter effect, the second of which failed the predicate
C16_Witness ==
  /\ IsPipe(<<"filter">>)
  /\ Len(reacts) = 3
  /\ ~Pred(reacts[2])
  /\ Len(calls) = 2

\* C17: a pair stage fed v0, v1, ..., vk in that order outputs [v0, undefined]
\* first and [vi, v(i-1)] for every i >= 1, a new array at every call.
C17_PairWithPrevious ==
  IsPipe(<<"pair">>) =>
    /\ Len(calls) = Len(reacts)
    /\ \A i \in 1..Len(calls) :
         calls[i] = <<reacts[i], IF i = 1 THEN UNDEFINED ELSE reacts[i - 1], i>>

\* a pair effect after three reactions
C17_Witness ==
  /\ IsPipe(<<"pair">>)
  /\ Len(calls) = 3
  /\ calls[3][2] = reacts[2]
  /\ calls[2][2] = reacts[1]
  /\ calls[1][2] = UNDEFINED

\* the effect of run reran in this step and read SKIPPED from the source
SkippedReaction == TheEffect'.rid = TheEffect.rid + 1 /\ src = SKIPPED

\* C18: a reaction whose source value is SKIPPED invokes no stage and not the
\* terminal callback (no call, no timer started, no destroy by take) and
\* leaves every skip/take counter and pair memory unchanged, so that the next
\* non-SKIPPED value is processed as it would have been without it.
C18_SkippedReactionIsInert ==
  [][Len(effects) = 1 /\ TheEffect.sink = 0 /\ SkippedReaction =>
       /\ calls' = calls
       /\ TheEffect'.stages = TheEffect.stages
       /\ TheEffect'.timers \subseteq TheEffect.timers
       /\ ~TheEffect'.destroyed
       /\ \A v \in PlainVals :
            /\ excludeSkipped(TheEffect', v).out = excludeSkipped(TheEffect, v).out
            /\ excludeSkipped(TheEffect', v).eff.stages
                 = excludeSkipped(TheEffect, v).eff.stages]_vars

\* a skip(2) effect, one of whose three reactions read SKIPPED: it has
\* counted two values only and has not called back
C18_Witness ==
  /\ IsPipe(<<"skip">>)
  /\ TheEffect.stages[1].n0 = 2
  /\ TheEffect.stages[1].n = 0
  /\ TheEffect.rid = 3
  /\ Len(reacts) = 2
  /\ calls = <<>>

\* the take stage of the effect of run has rejected a value: its counter,
\* built positive, went below zero
TakeRejected ==
  \E i \in 1..Len(TheEffect.stages) :
    TheEffect.stages[i].op = "take" /\ TheEffect.stages[i].n < 0

\* C19: once the take stage of an effect pipeline has rejected a value, the
\* handle returned by run is destroyed and stays destroyed: no later source
\* change executes any stage, those declared before take included (no
\* counter moves, no timer is started, nothing is called).
C19_TakeDestroysForGood ==
  /\ [](Len(effects) = 1 /\ TheEffect.sink = 0 /\ TakeRejected =>
          TheEffect.destroyed /\ TheEffect.timers = {})
  /\ [][Len(effects) = 1 /\ TheEffect.sink = 0 /\ TakeRejected =>
          /\ TheEffect'.destroyed
          /\ TheEffect'.rid = TheEffect.rid
          /\ TheEffect'.stages = TheEffect.stages
          /\ TheEffect'.timers = {}
          /\ calls' = calls]_vars

\* debounce(d).take(1): the take stage rejected the second value and the
\* source was written again afterwards
C19_Witness ==
  /\ IsPipe(<<"debounce", "take">>)
  /\ TakeRejected
  /\ Len(calls) = 1
  /\ Cardinality(fires) = 1
  /\ sets >= 2
  /\ src # SKIPPED
  /\ src # calls[1]
  /\ Len(reacts) = 2
  /\ src # reacts[2]

\* ---- effect pipelines under the host's timer guarantees ------------------
\* a due timer expires
Expire == \E i \in 1..Len(effects) : \E t \in effects[i].timers : TimerFire(i, t)

\* time moves on, and setTimeout callbacks that are due are run
SpecEffectTimed == SpecEffect /\ WF_vars(Tick) /\ WF_vars(Expire)

\* the timer of reaction r, carrying v, is pending in the live effect of run
Waiting(r, v) ==
  /\ IsPipe(<<"debounce">>)
  /\ ~TheEffect.destroyed
  /\ TheEffect.rid = r
  /\ \E t \in TheEffect.timers : t.rid = r /\ t.val = v

\* the reaction r was followed by another one, or the effect was destroyed,
\* or the callback has been called with v and no timer is left
Served(r, v) ==
  \/ TheEffect.rid # r
  \/ TheEffect.destroyed
  \/ TheEffect.timers = {} /\ calls # <<>> /\ calls[Len(calls)] = v

\* every timer is either just started with the full delay or an older one
\* whose remaining time went down by at most the tick that passed
Ageing ==
  \A u \in TheEffect'.timers :
    \/ u.rem = Delay /\ u.rid = TheEffect'.rid /\ TheEffect'.rid # TheEffect.rid
    \/ \E t \in TheEffect.timers :
         /\ u = [t EXCEPT !.rem = u.rem]
         /\ u.rem \in {t.rem, t.rem - 1}
         /\ u.rem = t.rem - 1 => calls' = calls /\ TheEffect'.rid = TheEffect.rid

\* C20: in effectPipe(s).debounce(d).run(cb), cb is never invoked earlier
\* than d after the reaction that read the value (it is invoked only by the
\* expiry of the timer the latest reaction started with delay d, once, with
\* that reaction's value), and if no further reaction occurs and the effect
\* is not destroyed, cb is eventually invoked with that value.
C20_DebounceCallsAfterDelay ==
  /\ [][IsPipe(<<"debounce">>) =>
          /\ Ageing
          /\ calls' # calls =>
               \E t \in TheEffect.timers \ TheEffect'.timers :
                 /\ t.rem = 0
                 /\ t.rid = TheEffect.rid
                 /\ calls' = Append(calls, t.val)
                 /\ TheEffect'.timers = {}]_vars
  /\ \A r \in 1..(MaxSets + 1) : \A v \in PlainVals : Waiting(r, v) ~> Served(r, v)

\* the callback received the value of the third reaction, the timers of the
\* first two having been replaced before they expired
C20_Witness ==
  /\ IsPipe(<<"debounce">>)
  /\ ~TheEffect.destroyed
  /\ TheEffect.rid = 3
  /\ Len(reacts) = 3
  /\ calls = <<reacts[3]>>
  /\ TheEffect.timers = {}

\* ---- map, default ---------------------------------------------------------
MapNodes == {i \in 1..Len(chain) : chain[i].op = "map"}

\* C21: when the producer of a map node reads SKIPPED after the node has
\* produced a mapped value, a read of the node returns that last mapped value
\* (not SKIPPED), and the read does not apply the mapping function again.
C21_MapKeepsLastMapped ==
  \A i \in MapNodes :
    chain[i].last # SKIPPED /\ ReadValue(i - 1) = SKIPPED
      => /\ ReadValue(i) = chain[i].last
         /\ ReadValue(i) # SKIPPED
         /\ Refresh(World, 1, i).chain[i].k = chain[i].k

\* a map node that mapped one value and was then computed on SKIPPED
C21_Witness ==
  \E i \in MapNodes :
    /\ chain[i].k = 1
    /\ chain[i].last # SKIPPED
    /\ src = SKIPPED
    /\ ~chain[i].stale
    /\ chain[i].val = chain[i].last

DefaultNodes == {i \in 1..Len(chain) : chain[i].op = "default"}

\* C23: a read of a default node returns the value given to default (undefined
\* when default was called with no argument) whenever its producer reads
\* SKIPPED, and the producer's value otherwise; it never returns SKIPPED.
C23_DefaultReplacesSkipped ==
  \A i \in DefaultNodes :
    /\ ReadValue(i) # SKIPPED
    /\ ReadValue(i - 1) # SKIPPED => ReadValue(i) = ReadValue(i - 1)
    /\ ReadValue(i - 1) = SKIPPED /\ chain[i].n0 = 1 => ReadValue(i) = DefaultValue
    /\ ReadValue(i - 1) = SKIPPED /\ chain[i].n0 = 0 => ReadValue(i) = UNDEFINED

\* skip(1).default(v) read while the skip node still reads SKIPPED although
\* the source holds a value
C23_Witness ==
  /\ Len(chain) = 2
  /\ chain[2].op = "default"
  /\ ~chain[2].stale
  /\ chain[2].val = DefaultValue
  /\ ~chain[1].stale
  /\ chain[1].val = SKIPPED
  /\ src # SKIPPED

\* ---- building: chain calls on a builder and on a derived chain, run --------
\* The caller builds either effect pipelines from one effectPipe(source) or
\* a derived chain from one computedPipe(source).
MaxStages == 1      \* chain calls that one builder chain is made of
MaxRuns == 2        \* calls of run
MaxThrows == 1      \* chain calls with a bad argument

\* the stages a caller asks for: skip(n) and take(n) with n >= 0, and pair()
Asked ==
  {Stage(op, n) : op \in {"skip", "take"}, n \in 0..MaxN} \cup {Stage("pair", 0)}

BuildChains == {<<d>> : d \in Asked}

\* the call threw: nothing was constructed
Threw ==
  /\ thrown < MaxThrows
  /\ thrown' = thrown + 1
  /\ UNCHANGED <<src, sets, chain, effects, calls, reacts, fires, lastPass, signals, builder,
               rootRefs>>

\* skip, take or pair is called on the newest builder: the pipe is created
\* first, then the builder that holds it
BuilderCall(d) ==
  /\ chain = <<>>
  /\ Len(builder) < MaxStages
  /\ IF Throws(d.op, d.n)
       THEN Threw
       ELSE /\ builder' = Append(builder, [d EXCEPT !.cell = Len(builder) + 1])
            /\ UNCHANGED <<src, sets, chain, effects, calls, reacts, fires,
                           lastPass, signals, thrown, rootRefs>>

\* run is called on the builder that the first k chain calls returned
Run(k) ==
  /\ chain = <<>>
  /\ Len(effects) < MaxRuns
  /\ effects' = Append(effects, NewEffect(0, 0, SubSeq(builder, 1, k)))
  /\ UNCHANGED <<src, sets, chain, calls, reacts, fires, lastPass, signals, builder, thrown, rootRefs>>

\* skip, take or pair is called on the derived chain
ChainCall(d) ==
  /\ builder = <<>>
  /\ effects = <<>>
  /\ IF Throws(d.op, d.n) THEN Threw ELSE AddStageIn(BuildChains, d)

InitBuild ==
  /\ src \in SrcVals
  /\ sets = 0
  /\ chain = <<>>
  /\ effects = <<>>
  /\ calls = <<>>
  /\ reacts = <<>>
  /\ fires = {}
  /\ lastPass = SKIPPED
  /\ signals = <<>>
  /\ builder = <<>>
  /\ thrown = 0
  /\ rootRefs = RootRefs

NextBuild ==
  \/ \E v \in SrcVals : SetSource(v)
  \/ \E d \in Asked : BuilderCall(d)
  \/ \E k \in 0..Len(builder) : Run(k)
  \/ \E d \in Asked : ChainCall(d)
  \/ \E i \in 1..Len(chain) : Read(i)
  \/ \E i \in 1..Len(effects) : RunEffect(i)

SpecBuild == InitBuild /\ [][NextBuild]_vars

\* a skip or take stage, node or effect stage built with a bad argument
BadStage(st) == st.op \in {"skip", "take"} /\ st.n0 <= 0

NothingBad ==
  /\ \A a \in 1..Len(builder) : ~BadStage(builder[a])
  /\ \A i \in 1..Len(chain) : ~BadStage(chain[i])
  /\ \A j \in 1..Len(effects) :
       \A a \in 1..Len(effects[j].stages) : ~BadStage(effects[j].stages[a])

\* C24: skip(n) or take(n) called with n <= 0 fails at that call, before run
\* is called or a value is read, and creates nothing: no builder, derived
\* node or effect ever holds a skip or take stage built with n <= 0, and the
\* step of a call that throws leaves builders, nodes and effects as they were.
C24_BadArgumentFailsAtCall ==
  /\ []NothingBad
  /\ [][thrown' # thrown => UNCHANGED <<builder, chain, effects, src>>]_vars

\* a call threw before anything was built, run or read
C24_Witness ==
  /\ thrown = 1
  /\ builder = <<>>
  /\ chain = <<>>
  /\ effects = <<>>

\* C30: the counter or previous-value cell of a skip, take or pair stage
\* belongs to one effect only, two effects registered by two calls of run on
\* the same builder included: the stage state of an effect changes only in a
\* step in which that effect itself reacts.
C30_CellsArePrivate ==
  [][\A j \in 1..Len(effects) :
       effects'[j].stages # effects[j].stages => effects'[j].rid # effects[j].rid]_vars

\* ---- skip and take in one effect pipeline -----------------------------------
\* C25: skip and take do not commute.  Over successive reactions to distinct
\* non-SKIPPED values, skip(n).take(n).run(cb) calls cb with the values
\* n+1 .. 2n and with no other (the effect is destroyed by value 2n+1), while
\* take(n).skip(n).run(cb) never calls cb and is destroyed by value n+1.
C25_SkipTakeOrderMatters ==
  /\ IsPipe(<<"skip", "take">>) =>
       /\ calls = SubSeq(reacts, TheEffect.stages[1].n0 + 1,
                         Min(2 * TheEffect.stages[1].n0, Len(reacts)))
       /\ Len(reacts) <= 2 * TheEffect.stages[1].n0 + 1
       /\ Len(reacts) = 2 * TheEffect.stages[1].n0 + 1 => TheEffect.destroyed
  /\ IsPipe(<<"take", "skip">>) =>
       /\ calls = <<>>
       /\ Len(reacts) <= TheEffect.stages[1].n0 + 1
       /\ Len(reacts) = TheEffect.stages[1].n0 + 1 => TheEffect.destroyed

\* take(1).skip(1) destroyed by its second value, having called nothing
C25_Witness ==
  /\ IsPipe(<<"take", "skip">>)
  /\ TheEffect.stages[1].n0 = 1
  /\ Len(reacts) = 2
  /\ TheEffect.destroyed
  /\ calls = <<>>

\* skip(1).take(1) destroyed by its third value, having called the second
SkipTakeDone ==
  /\ IsPipe(<<"skip", "take">>)
  /\ TheEffect.stages[1].n0 = 1
  /\ Len(reacts) = 3
  /\ TheEffect.destroyed
  /\ calls = <<reacts[2]>>

\* ---- several sources: effectPipe(s1, .., sk), computedPipe(s1, .., sk) ------
NumSignals == 2     \* number of source signals

\* the tuple with the sources in reverse order
Aggregate_Reversed(sigs) == [i \in 1..Len(sigs) |-> sigs[Len(sigs) + 1 - i]]

\* () => signals.map(s => s()): evaluated whenever the root is read
Aggregate(sigs) == [i \in 1..Len(sigs) |-> sigs[i]]

\* signals[i].set(v): what the root reads changes with it
SetSignal(i, v) ==
  /\ sets < MaxSets
  /\ v # signals[i]
  /\ sets' = sets + 1
  /\ signals' = [signals EXCEPT ![i] = v]
  /\ Commit(Notify(Bump([World EXCEPT !.src = Aggregate(signals')], 0), 0))
  /\ UNCHANGED <<calls, reacts, fires, lastPass, builder, thrown, rootRefs>>

MultiPipelines == {<<>>, <<Stage("skip", 1)>>, <<Stage("pair", 0)>>}
MultiChains == {<<Stage("skip", 1)>>, <<Stage("pair", 0)>>}

\* either run registers one effect over the sources, or a derived chain is built
InitMulti ==
  /\ signals \in [1..NumSignals -> SrcVals]
  /\ src = Aggregate(signals)
  /\ sets = 0
  /\ chain = <<>>
  /\ \/ effects = <<>>
     \/ \E p \in MultiPipelines : effects = <<NewEffect(0, 0, p)>>
  /\ calls = <<>>
  /\ reacts = <<>>
  /\ fires = {}
  /\ lastPass = SKIPPED
  /\ builder = <<>>
  /\ thrown = 0
  /\ rootRefs = RootRefs

MultiCall(d) ==
  /\ effects = <<>>
  /\ AddStageIn(MultiChains, d)

NextMulti ==
  \/ \E i \in 1..NumSignals : \E v \in SrcVals : SetSignal(i, v)
  \/ \E c \in MultiChains : MultiCall(c[1])
  \/ \E i \in 1..Len(chain) : Read(i)
  \/ \E i \in 1..Len(effects) : RunEffect(i)

SpecMulti == InitMulti /\ [][NextMulti]_vars

\* value t is the tuple of the values the sources hold in the next state
CurrentTuple(t) ==
  /\ Len(t) = NumSignals
  /\ \A i \in 1..NumSignals : t[i] = signals'[i]

\* C26: with k >= 2 sources, what is read at the root is the k-tuple of the
\* sources' current values in argument order, and the value of a reaction is
\* the tuple of the values the sources hold when it runs: however many of
\* them changed since the last reaction, it sees all the new values together.
C26_RootIsCurrentTuple ==
  /\ [](/\ Len(ReadValue(0)) = NumSignals
        /\ \A i \in 1..NumSignals : ReadValue(0)[i] = signals[i])
  /\ [][reacts' # reacts => CurrentTuple(reacts'[Len(reacts')])]_vars

\* both sources were set between the first and the second reaction, which saw
\* both new values
C26_Witness ==
  /\ Len(effects) = 1
  /\ TheEffect.rid = 2
  /\ Len(reacts) = 2
  /\ sets = 2
  /\ \A i \in 1..NumSignals : reacts[1][i] # reacts[2][i]
  /\ reacts[2] = signals

\* ---- skipped computations of derived nodes ----------------------------------
GateNodes == {i \in 1..Len(chain) : chain[i].op \in {"filter", "skip", "take"}}

\* the computation of node i on the value up was skipped
SkippedOn(i, up) ==
  \/ up = SKIPPED
  \/ chain[i].op = "filter" /\ ~Pred(up)
  \/ chain[i].op = "skip" /\ chain'[i].n >= 0
  \/ chain[i].op = "take" /\ chain'[i].n < 0

\* in this step node i, which had produced a value, was computed again and
\* the computation was skipped
SkippedRecompute(i) ==
  /\ chain[i].last # SKIPPED
  /\ chain[i].has /\ chain[i].stale
  /\ ~chain'[i].stale
  /\ SkippedOn(i, ValOf(World', i - 1))

\* node i was not computed in this step
NotRecomputed(i) ==
  /\ chain'[i].val = chain[i].val
  /\ chain'[i].n = chain[i].n
  /\ chain'[i].k = chain[i].k
  /\ chain'[i].prev = chain[i].prev
  /\ chain'[i].last = chain[i].last
  /\ chain'[i].hist = chain[i].hist
  /\ chain'[i].stale = chain[i].stale

\* effect j did not run in this step and none of its timers was started or reset
NotRerun(j) ==
  /\ effects'[j].rid = effects[j].rid
  /\ effects'[j].timers \subseteq effects[j].timers
  /\ ~effects'[j].destroyed => effects'[j].timers = effects[j].timers

\* C27: when the computation of a derived filter, skip or take node that has
\* produced a value is skipped, the node's value is the same as before and no
\* dependent that was up to date with it is run again: the next node of the
\* chain is not recomputed, and the effect of a debounce node that follows
\* does not run, so that its timer is neither started nor reset.
C27_SkippedRecomputeIsSilent ==
  [][\A i \in GateNodes :
       SkippedRecompute(i) =>
         /\ chain'[i].val = chain[i].val
         /\ chain'[i].val # SKIPPED
         /\ i < Len(chain) /\ chain[i + 1].op # "debounce"
              /\ chain[i + 1].has /\ ~chain[i + 1].stale => NotRecomputed(i + 1)
         /\ \A j \in 1..Len(effects) :
              effects[j].src = i /\ effects[j].hasRun /\ ~effects[j].stale
                /\ ~effects[j].destroyed => NotRerun(j)]_vars

\* filter(p).debounce(d): the debounce effect was polled after the source was
\* set to a rejected value; the timer of its first run is still pending
C27_Witness ==
  /\ Len(chain) = 2
  /\ chain[1].op = "filter"
  /\ chain[2].op = "debounce"
  /\ src # SKIPPED /\ ~Pred(src)
  /\ ~chain[1].stale
  /\ chain[1].val # SKIPPED
  /\ Len(chain[1].hist) = 1
  /\ ~effects[1].sched
  /\ effects[1].rid = 1
  /\ \E t \in effects[1].timers : t.rid = 1 /\ t.val = chain[1].val

\* ---- stopping twice ---------------------------------------------------------
\* destroy() on node i (0: on what computedPipe returned) of the graph w
DestroyAt(w, i) == destroy(w, RefsOf(w.chain, i))

IsFilterPair ==
  /\ Len(chain) = 2
  /\ chain[1].op = "filter"
  /\ chain[2].op = "pair"

\* C29 as stated: when the source is set to a value that the predicate
\* accepts, the pair node reads [that value, the value accepted before it].
C29_PairsWithPreviousAccepted ==
  [][IsFilterPair /\ src' # src /\ src' # SKIPPED /\ Pred(src') /\ lastPass # SKIPPED =>
       /\ ReadValueIn(World', 2) # SKIPPED
       /\ ReadValueIn(World', 2)[1] = src'
       /\ ReadValueIn(World', 2)[2] = lastPass]_vars

\* the first element of the array the pair node holds (undefined: it holds none)
HeldFirst == IF chain[2].val = SKIPPED THEN UNDEFINED ELSE chain[2].val[1]

\* C29 (amended): in filter(p).pair() a read returns SKIPPED as long as the
\* filter node reads SKIPPED, and otherwise an array whose first element is
\* the accepted value the filter node reads; rejected values never appear in
\* either position.  While the value of the filter node stays the same (the
\* source value was rejected, or equals the value accepted last) an
\* up-to-date pair node keeps its value; when its value changes, the new
\* value is [a, the first element of the array the node held before]
\* (undefined if it held none), a being the value of the filter node.
C29_PairSeesAcceptedOnly ==
  /\ [](IsFilterPair =>
          IF ReadValue(1) = SKIPPED THEN ReadValue(2) = SKIPPED
          ELSE /\ ReadValue(2) # SKIPPED
               /\ ReadValue(2)[1] = ReadValue(1)
               /\ Pred(ReadValue(2)[1])
               /\ ReadValue(2)[2] = UNDEFINED \/ Pred(ReadValue(2)[2]))
  /\ [][IsFilterPair =>
          /\ ~chain[2].stale /\ chain'[1].val = chain[1].val
                => chain'[2].val = chain[2].val
          /\ chain'[2].val # chain[2].val
                => /\ chain'[2].val[1] = chain'[1].val
                   /\ chain'[2].val[2] = HeldFirst]_vars

\* the pair node read [3, 1]; the source was then set to a rejected value and
\* the node read again
C29_Witness ==
  /\ IsFilterPair
  /\ src # SKIPPED /\ ~Pred(src)
  /\ ~chain[1].stale /\ ~chain[2].stale
  /\ Len(chain[1].hist) = 1
  /\ chain[2].val # SKIPPED
  /\ chain[2].val[1] = <<3>>
  /\ chain[2].val[2] = <<1>>

\* ---- a terminal callback that registers a cleanup function ------------------
CleanupPipelines ==
  {<<>>, <<Stage("take", 1)>>, <<Stage("filter", 0)>>, <<Stage("debounce", 0)>>}

\* run(cb) where cb calls ctx.onCleanup(fn) every time it is called
InitCleanup ==
  /\ src \in SrcVals
  /\ sets = 0
  /\ chain = <<>>
  /\ \E p \in CleanupPipelines : effects = <<[NewEffect(0, 0, p) EXCEPT !.reg = TRUE]>>
  /\ calls = <<>>
  /\ reacts = <<>>
  /\ fires = {}
  /\ lastPass = SKIPPED
  /\ signals = <<>>
  /\ builder = <<>>
  /\ thrown = 0
  /\ rootRefs = RootRefs

SpecCleanup == InitCleanup /\ [][NextEffect]_vars

\* the cleanup functions registered by the callback and not yet run
Registered(e) == {c \in e.cleanups : c[1] = 0}

RejectedNow == src = SKIPPED \/ ~Pred(src)

\* C32: any rerun of the reaction cancels the timers pending in the debounce
\* stages, also when the value of the rerun is rejected before it reaches the
\* debounce stage: after a rerun only timers started by that rerun are
\* pending, none at all in filter(p).debounce(d) when the value is rejected;
\* and what filter(p).debounce(d) delivers is always the value of the latest
\* reaction, so an accepted value followed within d by a rejected one is
\* never delivered.
C32_RerunCancelsTimer ==
  [][Len(effects) = 1 /\ TheEffect.sink = 0 =>
       /\ TheEffect'.rid # TheEffect.rid =>
            \A t \in TheEffect'.timers : t.rid = TheEffect'.rid
       /\ IsPipe(<<"filter", "debounce">>) /\ TheEffect'.rid # TheEffect.rid /\ RejectedNow =>
            TheEffect'.timers = {}
       /\ IsPipe(<<"filter", "debounce">>) /\ calls' # calls =>
            /\ calls' = Append(calls, reacts[Len(reacts)])
            /\ Pred(reacts[Len(reacts)])]_vars

\* filter(p).debounce(d): an accepted value, then a rejected one before the
\* timer expired: nothing is pending and nothing was delivered
C32_Witness ==
  /\ IsPipe(<<"filter", "debounce">>)
  /\ Len(reacts) = 2
  /\ Pred(reacts[1])
  /\ ~Pred(reacts[2])
  /\ TheEffect.timers = {}
  /\ fires = {}
  /\ calls = <<>>
  /\ sets = MaxSets

\* ---- take in an effect pipeline stops one value late ------------------------
\* C33: the take(n) stage of an effect pipeline destroys the effect when value
\* number n + 1 reaches it, not when the n-th value is delivered: unless the
\* caller destroyed the handle, the effect is destroyed exactly if more than
\* n reactions carried a value, so after n delivered values it is still
\* registered; and nothing but a reaction to a source change (or the caller)
\* destroys it.
C33_TakeStopsAtNextValue ==
  /\ [](IsPipe(<<"take">>) =>
          /\ TakeRejected <=> Len(reacts) > TheEffect.stages[1].n0
          /\ TakeRejected => TheEffect.destroyed
          /\ Len(reacts) <= TheEffect.stages[1].n0 + 1)
  /\ [][IsPipe(<<"take">>) /\ ~TheEffect.destroyed /\ TheEffect'.destroyed =>
          \/ TheEffect'.rid # TheEffect.rid /\ Len(reacts') = TheEffect.stages[1].n0 + 1
          \/ TheEffect'.rid = TheEffect.rid /\ TheEffect'.stages = TheEffect.stages]_vars

\* take(2) has delivered its two values, every write to the source has been
\* made and seen, and the effect is still registered
C33_Witness ==
  /\ IsPipe(<<"take">>)
  /\ TheEffect.stages[1].n0 = 2
  /\ Len(calls) = 2
  /\ ~TheEffect.destroyed
  /\ ~TheEffect.sched
  /\ sets = MaxSets

\* ---- a derived skip or take node read now and then --------------------------
\* computedPipe(source).skip(n) or .take(n), built before the source changes
InitLazy ==
  /\ src \in PlainVals
  /\ sets = 0
  /\ \E op \in {"skip", "take"} : \E n \in 1..MaxN : chain = <<NewNode(op, n)>>
  /\ effects = <<>>
  /\ calls = <<>>
  /\ reacts = <<>>
  /\ fires = {}
  /\ lastPass = SKIPPED
  /\ signals = <<>>
  /\ builder = <<>>
  /\ thrown = 0
  /\ rootRefs = RootRefs

NextLazy ==
  \/ \E v \in PlainVals : SetSource(v)
  \/ Read(1)

SpecLazy == InitLazy /\ [][NextLazy]_vars

\* the number of times the pipe of node i has been called
Computations(i) == chain[i].n0 - chain[i].n

\* C34: derived skip and take nodes count computations, not source changes.
\* A source change moves no counter; a read moves it by one, however many
\* times the source changed since the last read.  A skip(n) node reads
\* SKIPPED until its (n+1)-th computation, so it can hide more than n source
\* values; a take(n) node holds the value of its latest computation among
\* the first n, which can span more than n source changes.
C34_CountsComputations ==
  /\ [](/\ Computations(1) <= sets + 1
        /\ chain[1].has =>
             /\ ~chain[1].stale => Computations(1) >= 1
             /\ chain[1].op = "skip" =>
                  (chain[1].val = SKIPPED <=> Computations(1) <= chain[1].n0)
             /\ chain[1].op = "take" =>
                  chain[1].val = chain[1].hist[Min(Computations(1), chain[1].n0)])
  /\ [][/\ src' # src => chain'[1].n = chain[1].n
        /\ chain'[1].n # chain[1].n => chain'[1].n = chain[1].n - 1 /\ src' = src]_vars

\* skip(1) read for the first time after all the writes: one computation, and
\* the node hides every value the source has held
C34_Witness ==
  /\ chain[1].op = "skip"
  /\ chain[1].n0 = 1
  /\ sets = MaxSets
  /\ ~chain[1].stale
  /\ Computations(1) = 1
  /\ chain[1].val = SKIPPED

\* take(2) computed twice, the second time on the last value the source was set to
TakeSpansChanges ==
  /\ chain[1].op = "take"
  /\ chain[1].n0 = 2
  /\ sets = MaxSets
  /\ Computations(1) = 2
  /\ chain[1].val = src

\* ---- the same stages as an effect pipeline and as a derived chain -----------
BothChains ==
  {<<Stage("skip", n)>> : n \in 1..MaxN}
  \cup {<<Stage("take", n)>> : n \in 1..MaxN}
  \cup {<<Stage("filter", 0)>>,
        <<Stage("map", 0)>>,
        <<Stage("filter", 0), Stage("map", 0)>>,
        <<Stage("skip", 1), Stage("take", 1)>>,
        <<Stage("take", 1), Stage("skip", 1)>>,
        <<Stage("filter", 0), Stage("skip", 1)>>,
        <<Stage("map", 0), Stage("skip", 1)>>,
        <<Stage("filter", 0), Stage("take", 1)>>}

\* effectPipe(source).<stages>.run(cb) and computedPipe(source).<stages>
InitBoth ==
  /\ src \in SrcVals
  /\ sets = 0
  /\ \E p \in BothChains :
       /\ effects = <<NewEffect(0, 0, p)>>
       /\ chain = [i \in 1..Len(p) |-> NewNode(p[i].op, p[i].n)]
  /\ calls = <<>>
  /\ reacts = <<>>
  /\ fires = {}
  /\ lastPass = SKIPPED
  /\ signals = <<>>
  /\ builder = <<>>
  /\ thrown = 0
  /\ rootRefs = RootRefs

\* the reaction has run and the last node has been read since the last write
InStep ==
  /\ UpToDate
  /\ TheEffect.destroyed \/ (TheEffect.hasRun /\ ~TheEffect.sched)

\* the source is written once the reaction has run and the node has been read
WriteInStep(v) ==
  /\ InStep
  /\ SetSource(v)

NextBoth ==
  \/ \E v \in SrcVals : WriteInStep(v)
  \/ RunEffect(1)
  \/ Read(Len(chain))

SpecBoth == InitBoth /\ [][NextBoth]_vars

\* the last value handed to the callback (SKIPPED: none yet)
LastDelivered == IF calls = <<>> THEN SKIPPED ELSE calls[Len(calls)]

CountsAfterRepeat ==
  \E a, b \in 1..Len(chain) :
    /\ a < b
    /\ chain[a].op \in {"filter", "map"}
    /\ chain[b].op \in {"skip", "take"}

HasSkipped(t) == \E i \in 1..Len(t) : t[i] = SKIPPED

\* C36: with two or more sources SKIPPED values are not excluded: what the
\* first stage tests is the aggregated tuple, which is never SKIPPED, so
\* every reaction, also one in which a source holds SKIPPED, runs the stages
\* (a skip stage counts it, a pair stage pairs it) and run(cb) without stages
\* calls cb with the tuple, SKIPPED elements included.
C36_TupleIsNeverExcluded ==
  /\ [](src # SKIPPED)
  /\ [][Len(effects) = 1 /\ TheEffect'.rid # TheEffect.rid =>
          /\ reacts' = Append(reacts, src)
          /\ IsPipe(<<>>) => calls' = Append(calls, src)
          /\ IsPipe(<<"skip">>) => TheEffect'.stages[1].n = TheEffect.stages[1].n - 1
          /\ IsPipe(<<"pair">>) =>
               /\ TheEffect'.stages[1].prev = src
               /\ Len(calls') = Len(calls) + 1]_vars

\* the callback was called with a tuple in which a source is SKIPPED
C36_Witness ==
  /\ IsPipe(<<>>)
  /\ calls # <<>>
  /\ HasSkipped(calls[Len(calls)])
  /\ calls[Len(calls)] = signals

\* ---- computedPipe called again on the same signal ------------------------
MaxPipeCalls == 2   \* calls of computedPipe(sig) made on the one signal
RefsPerCall == 8    \* names apart the effectRefs arrays of different calls

\* computedPipe(sig) is called again: Object.assign replaces the methods of
\* sig by ones that close over a new, empty effectRefs array; the nodes made
\* through the earlier methods keep the array they were given
ComputedPipe ==
  /\ signals = <<>>
  /\ rootRefs < RootRefs + (MaxPipeCalls - 1) * RefsPerCall
  /\ rootRefs' = rootRefs + RefsPerCall
  /\ UNCHANGED <<src, sets, chain, effects, calls, reacts, fires, lastPass, signals,
                 builder, thrown>>

NextAgain ==
  \/ \E v \in SrcVals : SetSource(v)
  \/ \E c \in Lineages : \E j \in 1..Len(c) : AddStageIn(Lineages, c[j])
  \/ \E i \in 1..Len(chain) : Read(i)
  \/ \E i \in 1..Len(effects) : RunEffect(i)
  \/ \E i \in 1..Len(effects) : \E t \in effects[i].timers : TimerFire(i, t)
  \/ Tick
  \/ \E i \in 0..Len(chain) : Destroy(i)
  \/ ComputedPipe

SpecAgain == InitDerived /\ [][NextAgain]_vars

\* the effects registered through the methods of the first computedPipe(sig) call
FirstCallRefs == {j \in 1..Len(effects) : effects[j].list = RootRefs}

\* C37: computedPipe(sig) returns sig itself with the chain methods attached;
\* a second computedPipe(sig) replaces the methods and starts a new, empty
\* handle list (the signal, its nodes and its effects are otherwise as they
\* were), and from then on destroy() on the root leaves the debounce effects
\* created through the first call as they are, while destroy() on a node made
\* through the first call still stops them.
C37_SecondCallOrphansEffects ==
  /\ [][rootRefs' # rootRefs =>
          /\ UNCHANGED <<src, chain, effects>>
          /\ \A j \in 1..Len(effects) : effects[j].list # rootRefs']_vars
  /\ [](rootRefs # RootRefs =>
          /\ \A j \in FirstCallRefs : DestroyAt(World, 0).effects[j] = effects[j]
          /\ \A i \in 1..Len(chain) : \A j \in FirstCallRefs :
               DestroyAt(World, i).effects[j].destroyed)

\* computedPipe(sig) was called again after sig.debounce(d); the debounce
\* effect of the first call is live, has a timer pending, and no destroy() on
\* the root changes it
C37_Witness ==
  /\ rootRefs # RootRefs
  /\ Len(chain) >= 1
  /\ \E j \in FirstCallRefs :
       /\ ~effects[j].destroyed
       /\ effects[j].timers # {}
       /\ ~DestroyAt(World, 0).effects[j].destroyed
  /\ fires # {}

\* ---- branching: several chain calls on one builder ------------------------
\* builder holds one entry per chain call: the stage closure the call created
\* (its cell is the entry's index), the builder the call was made on (from,
\* 0: what effectPipe returned) and the pipeline of the builder the call
\* returned, as the indices of the stages it runs, first stage first.
MaxCalls == 2       \* chain calls made on the builders of one effectPipe(source)
MaxWrites == 1      \* writes to the source while the builders branch

Methods ==
  {Stage("filter", 0), Stage("map", 0), Stage("skip", 1), Stage("take", 1),
   Stage("pair", 0), Stage("debounce", 0)}

\* the pipeline of builder b
PipelineOf(bs, b) == IF b = 0 THEN <<>> ELSE bs[b].pipe

NewBuilder(d, c, b, p) ==
  [op |-> d.op, n0 |-> d.n0, n |-> d.n, prev |-> d.prev, k |-> d.k,
   cell |-> c, from |-> b, pipe |-> p]

\* the predicate and the mapping function of the caller take plain values:
\* they are not declared after a pair stage
Typed(b, d) ==
  d.op \in {"filter", "map"} =>
    \A m \in 1..Len(PipelineOf(builder, b)) : builder[PipelineOf(builder, b)[m]].op # "pair"

\* a chain method that pushes its stage onto the receiver and returns the receiver
BuilderMethod_ReturnsThis(b, d) ==
  /\ chain = <<>>
  /\ Len(builder) < MaxCalls
  /\ Typed(b, d)
  /\ builder' =
       Append([a \in 1..Len(builder) |->
                 IF a = b THEN [builder[a] EXCEPT !.pipe = Append(@, Len(builder) + 1)]
                 ELSE builder[a]],
              NewBuilder(d, Len(builder) + 1, b,
                         Append(PipelineOf(builder, b), Len(builder) + 1)))
  /\ UNCHANGED <<src, sets, chain, effects, calls, reacts, fires,
                 lastPass, signals, thrown, rootRefs>>

\* filter, map, skip, take, pair or debounce is called on builder b:
\* return new EffectPipeBuilder(...) whose pipeline wraps this.pipeline
BuilderMethod(b, d) ==
  /\ chain = <<>>
  /\ Len(builder) < MaxCalls
  /\ Typed(b, d)
  /\ builder' = Append(builder,
                       NewBuilder(d, Len(builder) + 1, b,
                                  Append(PipelineOf(builder, b), Len(builder) + 1)))
  /\ UNCHANGED <<src, sets, chain, effects, calls, reacts, fires,
                 lastPass, signals, thrown, rootRefs>>

\* the stages that the pipeline p runs
StagesOf(bs, p) == [m \in 1..Len(p) |-> bs[p[m]]]

\* run is called on builder b
RunOn(b) ==
  /\ chain = <<>>
  /\ Len(effects) < MaxRuns
  /\ effects' = Append(effects, NewEffect(0, 0, StagesOf(builder, PipelineOf(builder, b))))
  /\ UNCHANGED <<src, sets, chain, calls, reacts, fires, lastPass, signals, builder, thrown,
                 rootRefs>>

NextBranch ==
  \/ \E v \in SrcVals : sets < MaxWrites /\ SetSource(v)
  \/ \E b \in 0..Len(builder) : \E d \in Methods : BuilderMethod(b, d)
  \/ \E b \in 0..Len(builder) : RunOn(b)
  \/ \E i \in 1..Len(effects) : RunEffect(i)
  \/ \E i \in 1..Len(effects) : \E t \in effects[i].timers : TimerFire(i, t)
  \/ Tick

SpecBranch == InitBuild /\ [][NextBranch]_vars

\* the stages declared on the branch that ends in builder b
RECURSIVE Branch(_, _)
Branch(bs, b) == IF b = 0 THEN <<>> ELSE Append(Branch(bs, bs[b].from), b)

\* the stage closures that effect j runs
CellsOf(j) == {effects[j].stages[m].cell : m \in 1..Len(effects[j].stages)}

\* effect j reacted or a timer of its debounce stage expired
Acted(j) ==
  \/ effects'[j].rid # effects[j].rid
  \/ \E t \in effects[j].timers : t \notin effects'[j].timers /\ t.rem = 0

\* C38: every chain method of the effect builder returns a new builder and
\* leaves the receiver's pipeline unchanged.  A chain call adds one builder,
\* whose pipeline is the receiver's followed by the new stage, and changes no
\* builder that exists; so the pipeline of every builder is the stages
\* declared on its own branch, the effect that run registers runs the
\* pipeline of one builder, and the state of a stage changes only when an
\* effect whose branch declares that stage acts.
C38_ChainCallReturnsNewBuilder ==
  /\ [][Len(builder') # Len(builder) =>
          /\ Len(builder') = Len(builder) + 1
          /\ \A b \in 1..Len(builder) : builder'[b] = builder[b]
          /\ builder'[Len(builder')].pipe =
               Append(PipelineOf(builder, builder'[Len(builder')].from), Len(builder'))]_vars
  /\ [](\A b \in 0..Len(builder) : PipelineOf(builder, b) = Branch(builder, b))
  /\ [](\A j \in 1..Len(effects) : \E b \in 0..Len(builder) :
           effects[j].stages = StagesOf(builder, Branch(builder, b)))
  /\ [][\A a \in 1..Len(builder) :
          Len(builder') = Len(builder) /\ builder'[a] # builder[a] =>
            \E j \in 1..Len(effects) : Acted(j) /\ a \in CellsOf(j)]_vars

\* skip(1) and take(1) were called on the builder effectPipe returned and run
\* was called on both branches: the skip branch skipped the first value and
\* is live after the second, the take branch was stopped by the second
C38_Witness ==
  /\ Len(builder) = 2
  /\ builder[1].from = 0 /\ builder[2].from = 0
  /\ builder[1].op = "skip" /\ builder[2].op = "take"
  /\ Len(effects) = 2
  /\ effects[1].stages = <<builder[1]>>
  /\ effects[2].stages = <<builder[2]>>
  /\ builder[1].n = -1 /\ ~effects[1].destroyed
  /\ builder[2].n = -1 /\ effects[2].destroyed

\* ---- a debounce stage added after destroy() -------------------------------
\* a timer of effect j expired in this step while the effect was live
Expired(j, t) ==
  /\ t.rem = 0
  /\ t \notin effects'[j].timers
  /\ effects'[j].rid = effects[j].rid
  /\ ~effects[j].destroyed /\ ~effects'[j].destroyed

\* C39: destroyed is not a lasting state of a derived chain.  The shared
\* handle list only grows; the effect that a debounce call registers is live
\* and scheduled whatever was stopped before, and that call changes no
\* effect already in the list; a live effect's expiring timer writes its
\* value to the debounce node; and a further destroy() on any node stops
\* every effect of the list, after which none has a timer left.
C39_DestroyedIsNotLasting ==
  /\ [][\A j \in 1..Len(effects) :
          j <= Len(effects') /\ effects'[j].list = effects[j].list]_vars
  /\ [][Len(effects') # Len(effects) =>
          /\ Len(effects') = Len(effects) + 1
          /\ ~effects'[Len(effects')].destroyed
          /\ effects'[Len(effects')].sched
          /\ effects'[Len(effects')].list = RootRefs
          /\ \A j \in 1..Len(effects) : effects'[j] = effects[j]]_vars
  /\ [][\A j \in EffectRefs : \A t \in effects[j].timers :
          Expired(j, t) => chain'[effects[j].sink].val = t.val]_vars
  /\ [](\A i \in 0..Len(chain) : \A j \in EffectRefs :
          /\ DestroyAt(World, i).effects[j].destroyed
          /\ DestroyAt(World, i).effects[j].timers = {})

\* destroy() stopped the effect of the first debounce stage; the effect of
\* the debounce stage added afterwards is live, has run, and its timer has
\* expired and written to its node
C39_Witness ==
  /\ Len(effects) = 2
  /\ effects[1].destroyed
  /\ ~effects[2].destroyed
  /\ effects[2].hasRun
  /\ effects[2].timers = {}
  /\ effects[2].cleanups = {}
  /\ chain[1].val # SKIPPED
  /\ chain[2].val = chain[1].val
  /\ [live |-> TRUE, latest |-> TRUE] \in fires

====
